---- MODULE Spec2Model ----
(***************************************************************************)
(* Model of cargo's cache directory layout (core/compiler/cache_layout.rs). *)
(*                                                                         *)
(* Several cooperating cargo processes construct a CacheLayout             *)
(* (CacheLayout::new), materialise its directories (prepare) and drop it.  *)
(* CacheLayout::new performs its filesystem operations one after the       *)
(* other, so the steps of different processes interleave; every            *)
(* filesystem call of new() is one action.  prepare() runs entirely under  *)
(* the lock and is one action.                                             *)
(*                                                                         *)
(* A path is the sequence of its components: the root numbered i is <<i>>, *)
(* its version directory is <<i, "0">>, and so on.                         *)
(*                                                                         *)
(* Root 1 has been used by a cargo whose cache version is "1": it starts   *)
(* with that version's tree on disk, locked by a cargo of that version.    *)
(* The other roots do not exist yet.                                       *)
(* The processes run the same code, so their configurations are listed in  *)
(* one order only.                                                         *)
(***************************************************************************)
EXTENDS Naturals, Sequences, FiniteSets

\* ---------------------------------------------------------------- bounds
NumProcs == 2
NumRoots == 2

Procs == 1..NumProcs
Roots == {<<i>> : i \in 1..NumRoots}

\* ------------------------------------------------------------- constants
CACHE_VERSION == "0"
LockName == ".cargo-lock"

\* Option<T>
None == <<>>
Some(x) == <<x>>

\* CargoResult<Option<T>> as config.cache_dir() returns it: an error, or Ok(option).
CfgErr == [ok |-> FALSE, dir |-> None]
CfgOk(opt) == [ok |-> TRUE, dir |-> opt]

\* The configurations a process can run under.
CacheDirResults == {CfgErr, CfgOk(None)} \cup {CfgOk(Some(r)) : r \in Roots}

\* Processes are interchangeable: only assignments of configurations to
\* processes that are ordered by this rank are started from.
CfgRank(c) == IF ~ c.ok THEN 0 ELSE IF c.dir = None THEN 1 ELSE 1 + c.dir[1][1]

CfgOrdered(f) == \A p, q \in Procs : p < q => CfgRank(f[p]) <= CfgRank(f[q])

\* The roots after the first are interchangeable too (none exists at the
\* start): root i + 1 has no more processes than root i.
Users(f, i) == Cardinality({p \in Procs : f[p] = CfgOk(Some(<<i>>))})

RootsOrdered(f) ==
    \A i \in 3..NumRoots : Users(f, i) <= Users(f, i - 1)

VARIABLES
    dirs,        \* directories that exist on disk (set of paths)
    files,       \* regular files that exist on disk (set of paths)
    excluded,    \* directories carrying the "excluded from backups" attribute
    locks,       \* exclusive file locks held: set of [file, owner]
    pc,          \* where each process stands in CacheLayout::new / the Layout's life
    cfg,         \* what config.cache_dir() returns in each process (its configuration)
    layout,      \* Option<CacheLayout> owned by each process
    result,      \* what the last call of new() returned
    err,         \* the operation whose error new() returned
    hook,        \* outcome of the exclude_from_backups call just made ("none" otherwise)
    prep,        \* what the last call of prepare() returned
    phase,       \* lifecycle state of the process's Layout instance
    hookRuns,    \* number of calls of exclude_from_backups per directory
    created      \* log of directory creations: [path, locked], locked = the
                 \* creating process held the lock of the path's version directory

vars == <<dirs, files, excluded, locks, pc, cfg, layout, result, err, hook,
          prep, phase, hookRuns, created>>

\* ---------------------------------------------------------------- paths
Join(path, seg) == Append(path, seg)

Prefixes(path) == {SubSeq(path, 1, k) : k \in 1..Len(path)}

IsUnder(path, dir) ==
    /\ Len(path) > Len(dir)
    /\ SubSeq(path, 1, Len(dir)) = dir

DestOf(root) == Join(root, CACHE_VERSION)

LockFile(dest) == Join(dest, LockName)

Dests == {DestOf(r) : r \in Roots}

\* The directory the current call of new() works on.
Dest(p) == DestOf(cfg[p].dir[1])

\* ------------------------------------------------- filesystem primitives
\* create_dir_all: the directory and all its missing ancestors.
CreateDirAll(ds, path) == ds \cup Prefixes(path)

\* An exclusive lock on a file can be taken when nobody holds one.
LockAvailable(ls, file) == ~ \E l \in ls : l.file = file

Holds(p, file) == [file |-> file, owner |-> p] \in locks

Holders(file) == {p \in Procs : Holds(p, file)}

\* The log entries of the directories this step really creates.
Creations(p, paths) ==
    {[path |-> d,
      locked |-> \E dst \in Dests : (d = dst \/ IsUnder(d, dst)) /\ Holds(p, LockFile(dst))]
        : d \in paths \ dirs}

\* exclude_from_backups: sets the attribute where the platform has one and
\* the call succeeds; returns nothing in every case.
HookOutcomes == {"ok", "failed", "noop"}

ExcludeFromBackups(ex, path, outcome) ==
    IF outcome = "ok" THEN ex \cup {path} ELSE ex

\* ----------------------------------------------------------------- Layout
\* Variant: the fingerprint directory loses its leading dot.
MkLayout_NoDot(root, lock) ==
    LET dest == DestOf(root) IN
    [root |-> root,
     dest |-> dest,
     deps |-> Join(dest, "deps"),
     build |-> Join(dest, "build"),
     fingerprint |-> Join(dest, "fingerprint"),
     _lock |-> lock]

\* Ok(Some(CacheLayout { deps, build, fingerprint, root, dest, _lock }))
MkLayout(root, lock) ==
    LET dest == DestOf(root) IN
    [root |-> root,
     dest |-> dest,
     deps |-> Join(dest, "deps"),
     build |-> Join(dest, "build"),
     fingerprint |-> Join(dest, ".fingerprint"),
     _lock |-> lock]

Live(p) == layout[p] # None

\* ------------------------------------------------- the other cache version
\* The tree a cargo with another CACHE_VERSION leaves under a root.
OtherVersion == "1"

OtherDest(root) == Join(root, OtherVersion)

OtherDirs(root) ==
    {root, OtherDest(root), Join(OtherDest(root), "deps"),
     Join(OtherDest(root), "build"), Join(OtherDest(root), ".fingerprint")}

OtherFiles(root) == {Join(OtherDest(root), LockName)}

\* A cargo of that version is at work in its tree and holds its lock.
OtherCargo == 0

OtherLocks(root) == {[file |-> Join(OtherDest(root), LockName), owner |-> OtherCargo]}

UsedRoot == <<1>>

\* ------------------------------------------------------------------ Init
Init ==
    /\ dirs = OtherDirs(UsedRoot)
    /\ files = OtherFiles(UsedRoot)
    /\ excluded = {}
    /\ locks = OtherLocks(UsedRoot)
    /\ pc = [p \in Procs |-> "idle"]
    /\ cfg \in {f \in [Procs -> CacheDirResults] : CfgOrdered(f) /\ RootsOrdered(f)}
    /\ layout = [p \in Procs |-> None]
    /\ result = [p \in Procs |-> "none"]
    /\ err = [p \in Procs |-> "none"]
    /\ hook = [p \in Procs |-> "none"]
    /\ prep = [p \in Procs |-> "none"]
    /\ phase = [p \in Procs |-> "Unconfigured"]
    /\ hookRuns = [d \in Dests |-> 0]
    /\ created = {}

\* --------------------------------------------------------- CacheLayout::new
\* Variant: a missing cache root is reported as a configuration error.
NewResolve_NoneIsError(p) ==
    /\ pc[p] = "idle"
    /\ prep' = [prep EXCEPT ![p] = "none"]
    /\ \/ /\ ~ (cfg[p].ok /\ cfg[p].dir # None)
          /\ result' = [result EXCEPT ![p] = "Err"]
          /\ err' = [err EXCEPT ![p] = "config"]
          /\ phase' = [phase EXCEPT ![p] = "Unconfigured"]
          /\ pc' = pc
       \/ /\ cfg[p].ok /\ cfg[p].dir # None
          /\ result' = [result EXCEPT ![p] = "pending"]
          /\ err' = [err EXCEPT ![p] = "none"]
          /\ phase' = [phase EXCEPT ![p] = "RootResolved"]
          /\ pc' = [pc EXCEPT ![p] = "check"]
    /\ UNCHANGED <<dirs, files, excluded, locks, cfg, layout, hook, hookRuns, created>>

\* cx.bcx.config.cache_dir()? : an error, no root, or a root.
NewResolve(p) ==
    /\ pc[p] = "idle"
    /\ prep' = [prep EXCEPT ![p] = "none"]
    /\ \/ /\ cfg[p] = CfgErr
          /\ result' = [result EXCEPT ![p] = "Err"]
          /\ err' = [err EXCEPT ![p] = "config"]
          /\ phase' = [phase EXCEPT ![p] = "Unconfigured"]
          /\ pc' = pc
       \/ /\ cfg[p] = CfgOk(None)
          /\ result' = [result EXCEPT ![p] = "OkNone"]
          /\ err' = [err EXCEPT ![p] = "none"]
          /\ phase' = [phase EXCEPT ![p] = "Unconfigured"]
          /\ pc' = pc
       \/ /\ cfg[p].ok /\ cfg[p].dir # None
          /\ result' = [result EXCEPT ![p] = "pending"]
          /\ err' = [err EXCEPT ![p] = "none"]
          /\ phase' = [phase EXCEPT ![p] = "RootResolved"]
          /\ pc' = [pc EXCEPT ![p] = "check"]
    /\ UNCHANGED <<dirs, files, excluded, locks, cfg, layout, hook, hookRuns, created>>

\* if !dest.as_path_unlocked().exists()
NewCheckExists(p) ==
    /\ pc[p] = "check"
    /\ pc' = [pc EXCEPT ![p] = IF Dest(p) \in dirs THEN "open" ELSE "create"]
    /\ UNCHANGED <<dirs, files, excluded, locks, cfg, layout, result, err, hook,
                   prep, phase, hookRuns, created>>

\* Variant: new() also creates dest/deps right away, before taking the lock.
NewCreateDir_Eager(p) ==
    /\ pc[p] = "create"
    /\ \/ /\ dirs' = CreateDirAll(dirs, Join(Dest(p), "deps"))
          /\ created' = created \cup Creations(p, Prefixes(Join(Dest(p), "deps")))
          /\ pc' = [pc EXCEPT ![p] = "exclude"]
          /\ UNCHANGED <<result, err>>
       \/ /\ result' = [result EXCEPT ![p] = "Err"]
          /\ err' = [err EXCEPT ![p] = "create_dir"]
          /\ pc' = [pc EXCEPT ![p] = "idle"]
          /\ UNCHANGED <<dirs, created>>
    /\ UNCHANGED <<files, excluded, locks, cfg, layout, hook, prep, phase, hookRuns>>

\* Variant: creating a version directory clears the other versions of the root.
NewCreateDir_Purge(p) ==
    /\ pc[p] = "create"
    /\ \/ /\ dirs' = CreateDirAll({x \in dirs : ~ IsUnder(x, cfg[p].dir[1])}, Dest(p))
          /\ created' = created \cup Creations(p, Prefixes(Dest(p)))
          /\ pc' = [pc EXCEPT ![p] = "exclude"]
          /\ UNCHANGED <<result, err>>
       \/ /\ result' = [result EXCEPT ![p] = "Err"]
          /\ err' = [err EXCEPT ![p] = "create_dir"]
          /\ pc' = [pc EXCEPT ![p] = "idle"]
          /\ UNCHANGED <<dirs, created>>
    /\ UNCHANGED <<files, excluded, locks, cfg, layout, hook, prep, phase, hookRuns>>

\* dest.create_dir()?
NewCreateDir(p) ==
    /\ pc[p] = "create"
    /\ \/ /\ dirs' = CreateDirAll(dirs, Dest(p))
          /\ created' = created \cup Creations(p, Prefixes(Dest(p)))
          /\ pc' = [pc EXCEPT ![p] = "exclude"]
          /\ UNCHANGED <<result, err>>
       \/ /\ result' = [result EXCEPT ![p] = "Err"]
          /\ err' = [err EXCEPT ![p] = "create_dir"]
          /\ pc' = [pc EXCEPT ![p] = "idle"]
          /\ UNCHANGED <<dirs, created>>
    /\ UNCHANGED <<files, excluded, locks, cfg, layout, hook, prep, phase, hookRuns>>

\* Variant: a failure of the hook is returned with `?`.
NewExclude_Propagate(p) ==
    /\ pc[p] = "exclude"
    /\ \E outcome \in HookOutcomes :
        /\ excluded' = ExcludeFromBackups(excluded, Dest(p), outcome)
        /\ hook' = [hook EXCEPT ![p] = outcome]
        /\ IF outcome = "failed"
           THEN /\ result' = [result EXCEPT ![p] = "Err"]
                /\ err' = [err EXCEPT ![p] = "exclude"]
                /\ pc' = [pc EXCEPT ![p] = "idle"]
           ELSE /\ pc' = [pc EXCEPT ![p] = "open"]
                /\ UNCHANGED <<result, err>>
    /\ hookRuns' = [hookRuns EXCEPT ![Dest(p)] = @ + 1]
    /\ UNCHANGED <<dirs, files, locks, cfg, layout, prep, phase, created>>

\* exclude_from_backups(dest.as_path_unlocked());
NewExclude(p) ==
    /\ pc[p] = "exclude"
    /\ \E outcome \in HookOutcomes :
        /\ excluded' = ExcludeFromBackups(excluded, Dest(p), outcome)
        /\ hook' = [hook EXCEPT ![p] = outcome]
    /\ hookRuns' = [hookRuns EXCEPT ![Dest(p)] = @ + 1]
    /\ pc' = [pc EXCEPT ![p] = "open"]
    /\ UNCHANGED <<dirs, files, locks, cfg, layout, result, err, prep, phase, created>>

\* Variant: the error of open_rw is dropped (`.ok()`) and new() returns Ok(None).
NewOpenRw_Swallow(p) ==
    /\ pc[p] = "open"
    /\ \/ /\ files' = files \cup {LockFile(Dest(p))}
          /\ pc' = [pc EXCEPT ![p] = "lock"]
          /\ UNCHANGED <<result, err>>
       \/ /\ result' = [result EXCEPT ![p] = "OkNone"]
          /\ err' = [err EXCEPT ![p] = "open_rw"]
          /\ pc' = [pc EXCEPT ![p] = "idle"]
          /\ UNCHANGED files
    /\ hook' = [hook EXCEPT ![p] = "none"]
    /\ UNCHANGED <<dirs, excluded, locks, cfg, layout, prep, phase, hookRuns, created>>

\* Variant: when open_rw fails, a dest this call has just created is removed again.
NewOpenRw_Rollback(p) ==
    /\ pc[p] = "open"
    /\ \/ /\ files' = files \cup {LockFile(Dest(p))}
          /\ pc' = [pc EXCEPT ![p] = "lock"]
          /\ UNCHANGED <<result, err, dirs>>
       \/ /\ result' = [result EXCEPT ![p] = "Err"]
          /\ err' = [err EXCEPT ![p] = "open_rw"]
          /\ pc' = [pc EXCEPT ![p] = "idle"]
          /\ dirs' = IF hook[p] # "none" THEN dirs \ {Dest(p)} ELSE dirs
          /\ UNCHANGED files
    /\ hook' = [hook EXCEPT ![p] = "none"]
    /\ UNCHANGED <<excluded, locks, cfg, layout, prep, phase, hookRuns, created>>

\* dest.open_rw(".cargo-lock", ..)? : opening (and creating) the lock file.
NewOpenRw(p) ==
    /\ pc[p] = "open"
    /\ \/ /\ files' = files \cup {LockFile(Dest(p))}
          /\ pc' = [pc EXCEPT ![p] = "lock"]
          /\ UNCHANGED <<result, err>>
       \/ /\ result' = [result EXCEPT ![p] = "Err"]
          /\ err' = [err EXCEPT ![p] = "open_rw"]
          /\ pc' = [pc EXCEPT ![p] = "idle"]
          /\ UNCHANGED files
    /\ hook' = [hook EXCEPT ![p] = "none"]
    /\ UNCHANGED <<dirs, excluded, locks, cfg, layout, prep, phase, hookRuns, created>>

\* Variant: the lock is taken without waiting for its holder.
NewLock_NoWait(p) ==
    /\ pc[p] = "lock"
    /\ locks' = locks \cup {[file |-> LockFile(Dest(p)), owner |-> p]}
    /\ layout' = [layout EXCEPT ![p] = Some(MkLayout(cfg[p].dir[1], LockFile(Dest(p))))]
    /\ result' = [result EXCEPT ![p] = "OkSome"]
    /\ phase' = [phase EXCEPT ![p] = "Locked"]
    /\ pc' = [pc EXCEPT ![p] = "live"]
    /\ UNCHANGED <<dirs, files, excluded, cfg, err, hook, prep, hookRuns, created>>

\* Variant: a non-blocking try-lock; a held lock makes new() return an error.
NewLock_TryLock(p) ==
    /\ pc[p] = "lock"
    /\ IF LockAvailable(locks, LockFile(Dest(p)))
       THEN /\ locks' = locks \cup {[file |-> LockFile(Dest(p)), owner |-> p]}
            /\ layout' = [layout EXCEPT ![p] = Some(MkLayout(cfg[p].dir[1], LockFile(Dest(p))))]
            /\ result' = [result EXCEPT ![p] = "OkSome"]
            /\ phase' = [phase EXCEPT ![p] = "Locked"]
            /\ pc' = [pc EXCEPT ![p] = "live"]
            /\ err' = err
       ELSE /\ result' = [result EXCEPT ![p] = "Err"]
            /\ err' = [err EXCEPT ![p] = "open_rw"]
            /\ pc' = [pc EXCEPT ![p] = "idle"]
            /\ UNCHANGED <<locks, layout, phase>>
    /\ UNCHANGED <<dirs, files, excluded, cfg, hook, prep, hookRuns, created>>

\* Variant: one lock for all caches; any held lock makes new() wait.
NewLock_Global(p) ==
    /\ pc[p] = "lock"
    /\ locks = {}
    /\ locks' = locks \cup {[file |-> LockFile(Dest(p)), owner |-> p]}
    /\ layout' = [layout EXCEPT ![p] = Some(MkLayout(cfg[p].dir[1], LockFile(Dest(p))))]
    /\ result' = [result EXCEPT ![p] = "OkSome"]
    /\ phase' = [phase EXCEPT ![p] = "Locked"]
    /\ pc' = [pc EXCEPT ![p] = "live"]
    /\ UNCHANGED <<dirs, files, excluded, cfg, err, hook, prep, hookRuns, created>>

\* dest.open_rw(..)? : the blocking exclusive lock, then Ok(Some(CacheLayout {..})).
NewLock(p) ==
    /\ pc[p] = "lock"
    /\ LockAvailable(locks, LockFile(Dest(p)))
    /\ locks' = locks \cup {[file |-> LockFile(Dest(p)), owner |-> p]}
    /\ layout' = [layout EXCEPT ![p] = Some(MkLayout(cfg[p].dir[1], LockFile(Dest(p))))]
    /\ result' = [result EXCEPT ![p] = "OkSome"]
    /\ phase' = [phase EXCEPT ![p] = "Locked"]
    /\ pc' = [pc EXCEPT ![p] = "live"]
    /\ UNCHANGED <<dirs, files, excluded, cfg, err, hook, prep, hookRuns, created>>

\* ----------------------------------------------------- CacheLayout::prepare
\* Variant: the order of the fields in the struct literal of new().
PrepareOrder_FieldOrder(l) == <<l.deps, l.build, l.fingerprint>>

\* The directories prepare() creates, in the order it creates them.
PrepareOrder(l) == <<l.deps, l.fingerprint, l.build>>

\* create_dir_all of the first n directories of prepare().
PrepareDirs(l, n) == UNION {Prefixes(PrepareOrder(l)[i]) : i \in 1..n}

\* Variant: create_dir instead of create_dir_all; an existing directory is an error.
Prepare_Strict(p) ==
    /\ pc[p] = "live"
    /\ LET l == layout[p][1] IN
       \/ /\ \A f \in 1..3 : PrepareOrder(l)[f] \notin dirs
          /\ dirs' = dirs \cup PrepareDirs(l, 3)
          /\ created' = created \cup Creations(p, PrepareDirs(l, 3))
          /\ prep' = [prep EXCEPT ![p] = "Ok"]
          /\ phase' = [phase EXCEPT ![p] = "DirectoriesPrepared"]
       \/ \E f \in 1..3 :
          /\ \A g \in 1..(f - 1) : PrepareOrder(l)[g] \notin dirs
          /\ dirs' = dirs \cup PrepareDirs(l, f - 1)
          /\ created' = created \cup Creations(p, PrepareDirs(l, f - 1))
          /\ prep' = [prep EXCEPT ![p] = "Err"]
          /\ phase' = phase
    /\ UNCHANGED <<files, excluded, locks, pc, cfg, layout, result, err, hook, hookRuns>>

\* Variant: the directories are prepared as soon as the lock file is open,
\* before the lock is held.
Prepare_Unlocked(p) ==
    /\ pc[p] \in {"lock", "live"}
    /\ LET l == MkLayout(cfg[p].dir[1], LockFile(Dest(p))) IN
       \/ /\ dirs' = dirs \cup PrepareDirs(l, 3)
          /\ created' = created \cup Creations(p, PrepareDirs(l, 3))
          /\ prep' = [prep EXCEPT ![p] = "Ok"]
          /\ phase' = [phase EXCEPT ![p] = "DirectoriesPrepared"]
       \/ \E f \in 1..3 :
          /\ PrepareOrder(l)[f] \notin dirs
          /\ dirs' = dirs \cup PrepareDirs(l, f - 1)
          /\ created' = created \cup Creations(p, PrepareDirs(l, f - 1))
          /\ prep' = [prep EXCEPT ![p] = "Err"]
          /\ phase' = phase
    /\ UNCHANGED <<files, excluded, locks, pc, cfg, layout, result, err, hook, hookRuns>>

\* Variant: prepare() stores the directory it created last in place of deps.
Prepare_Rewrite(p) ==
    /\ pc[p] = "live"
    /\ LET l == layout[p][1] IN
       \/ /\ dirs' = dirs \cup PrepareDirs(l, 3)
          /\ created' = created \cup Creations(p, PrepareDirs(l, 3))
          /\ prep' = [prep EXCEPT ![p] = "Ok"]
          /\ phase' = [phase EXCEPT ![p] = "DirectoriesPrepared"]
          /\ layout' = [layout EXCEPT ![p] = Some([l EXCEPT !.deps = l.build])]
       \/ \E f \in 1..3 :
          /\ PrepareOrder(l)[f] \notin dirs
          /\ dirs' = dirs \cup PrepareDirs(l, f - 1)
          /\ created' = created \cup Creations(p, PrepareDirs(l, f - 1))
          /\ prep' = [prep EXCEPT ![p] = "Err"]
          /\ phase' = phase
          /\ layout' = layout
    /\ UNCHANGED <<files, excluded, locks, pc, cfg, result, err, hook, hookRuns>>

\* prepare(): either all three succeed, or the f-th create_dir_all fails
\* (which an existing directory never does) after the earlier ones are done.
Prepare(p) ==
    /\ pc[p] = "live"
    /\ LET l == layout[p][1] IN
       \/ /\ dirs' = dirs \cup PrepareDirs(l, 3)
          /\ created' = created \cup Creations(p, PrepareDirs(l, 3))
          /\ prep' = [prep EXCEPT ![p] = "Ok"]
          /\ phase' = [phase EXCEPT ![p] = "DirectoriesPrepared"]
       \/ \E f \in 1..3 :
          /\ PrepareOrder(l)[f] \notin dirs
          /\ dirs' = dirs \cup PrepareDirs(l, f - 1)
          /\ created' = created \cup Creations(p, PrepareDirs(l, f - 1))
          /\ prep' = [prep EXCEPT ![p] = "Err"]
          /\ phase' = phase
    /\ UNCHANGED <<files, excluded, locks, pc, cfg, layout, result, err, hook, hookRuns>>

\* ---------------------------------------------------------------- accessors
\* The accessors return the stored paths; they change nothing.
dest(l) == l.dest

deps(l) == l.deps

root(l) == l.root

fingerprint(l) == l.fingerprint

build(l) == l.build

\* ------------------------------------------------------ drop(CacheLayout)
\* Variant: the Layout goes away but its file lock is leaked.
Discard_Leak(p) ==
    /\ pc[p] = "live"
    /\ layout' = [layout EXCEPT ![p] = None]
    /\ phase' = [phase EXCEPT ![p] = "Released"]
    /\ pc' = [pc EXCEPT ![p] = "idle"]
    /\ UNCHANGED <<dirs, files, excluded, locks, cfg, result, err, hook, prep, hookRuns, created>>

\* Variant: dropping the Layout also removes its lock file.
Discard_Unlink(p) ==
    /\ pc[p] = "live"
    /\ locks' = locks \ {[file |-> layout[p][1]._lock, owner |-> p]}
    /\ files' = files \ {layout[p][1]._lock}
    /\ layout' = [layout EXCEPT ![p] = None]
    /\ phase' = [phase EXCEPT ![p] = "Released"]
    /\ pc' = [pc EXCEPT ![p] = "idle"]
    /\ UNCHANGED <<dirs, excluded, cfg, result, err, hook, prep, hookRuns, created>>

\* Dropping the Layout drops its _lock field, which unlocks the file.
Discard(p) ==
    /\ pc[p] = "live"
    /\ locks' = locks \ {[file |-> layout[p][1]._lock, owner |-> p]}
    /\ layout' = [layout EXCEPT ![p] = None]
    /\ phase' = [phase EXCEPT ![p] = "Released"]
    /\ pc' = [pc EXCEPT ![p] = "idle"]
    /\ UNCHANGED <<dirs, files, excluded, cfg, result, err, hook, prep, hookRuns, created>>

\* ------------------------------------------------------------------ Next
Next ==
    \E p \in Procs :
        \/ NewResolve(p)
        \/ NewCheckExists(p)
        \/ NewCreateDir(p)
        \/ NewExclude(p)
        \/ NewOpenRw(p)
        \/ NewLock(p)
        \/ Prepare(p)
        \/ Discard(p)

Spec == Init /\ [][Next]_vars

\* The holder may keep its Layout for as long as it likes, but drops it in the
\* end; a process blocked in the exclusive lock gets it once it is free.
LiveSpec ==
    /\ Spec
    /\ \A p \in Procs : WF_vars(Discard(p)) /\ SF_vars(NewLock(p))

\* ============================================================ properties
\* The live Layouts on, and the lock holders of, one version directory.
LiveOn(d) == {p \in Procs : Live(p) /\ layout[p][1].dest = d}

HoldsAny(p) == \E l \in locks : l.owner = p

\* C1: for each (root, VERSION), at most one process has a live Layout on
\* that dest and at most one process holds the lock on its .cargo-lock.
MutualExclusion ==
    \A d \in Dests :
        /\ Cardinality(LiveOn(d)) <= 1
        /\ Cardinality(Holders(LockFile(d))) <= 1

\* A lock hand-off has happened: one process holds a Layout on a dest that
\* another process had locked and released before.
HandOffReached ==
    \E p, q \in Procs :
        /\ p # q
        /\ Live(p)
        /\ phase[q] = "Released"
        /\ cfg[q] = cfg[p]

\* C2: a call of new() blocked on a lock that another process holds stays
\* blocked (no Layout, no error) while it is held, and every call that
\* reached the lock eventually returns a Layout holding it.
BlockedStep(p) ==
    (pc[p] = "lock" /\ ~ LockAvailable(locks, LockFile(Dest(p))))
        => (pc'[p] = "lock" /\ result'[p] = "pending" /\ layout'[p] = None)

BlockingAcquisition ==
    /\ [][\A p \in Procs : BlockedStep(p)]_vars
    /\ \A p \in Procs :
        (pc[p] = "lock") ~> (Live(p) /\ Holds(p, LockFile(Dest(p))))

\* A call of new() waits on a lock that another process holds.
WaiterBlocked ==
    \E p, q \in Procs :
        /\ p # q
        /\ pc[p] = "lock"
        /\ Holds(q, LockFile(Dest(p)))

\* C3: a process holds the lock exactly while it owns a Layout, and the lock
\* it holds is the one of that Layout; nothing is held after the discard,
\* whatever prepare() returned.
LockLifetime ==
    \A p \in Procs :
        /\ Live(p) <=> HoldsAny(p)
        /\ Live(p) <=> (pc[p] = "live")
        /\ Live(p) => \A l \in locks : l.owner = p => l.file = layout[p][1]._lock

\* A Layout whose prepare() failed has been discarded and its lock is free.
ReleasedAfterPrepareError ==
    \E p \in Procs :
        /\ prep[p] = "Err"
        /\ phase[p] = "Released"
        /\ ~ HoldsAny(p)
        /\ LockAvailable(locks, LockFile(Dest(p)))

\* C4 as stated: every directory created at or under a version directory is
\* created by the process that holds the lock of that version directory.
InVersionDir(path) == \E d \in Dests : path = d \/ IsUnder(path, d)

AllCreationsUnderLock ==
    \A e \in created : InVersionDir(e.path) => e.locked

\* C4 amended: the directories below a version directory (deps, .fingerprint,
\* build) are created by the holder of its lock; the version directory itself
\* is created by a process that does not hold the lock.
PrepareCreationsUnderLock ==
    \A e \in created :
        /\ (\E d \in Dests : IsUnder(e.path, d)) => e.locked
        /\ e.path \in Dests => ~ e.locked

\* prepare() has created a directory while another process was in new().
PrepareCreatedWhileContended ==
    \E p, q \in Procs :
        /\ p # q
        /\ Live(p)
        /\ \E e \in created : IsUnder(e.path, layout[p][1].dest) /\ e.locked
        /\ pc[q] \in {"check", "create", "exclude", "open", "lock"}

\* C5: exclude_from_backups runs at most once per version directory.
HookAtMostOnce ==
    \A d \in Dests : hookRuns[d] <= 1

\* C6: without a configured root, new() returns Ok(None), holds no lock and
\* owns no Layout, and the step that returns leaves the disk, the locks and
\* the hook untouched.
NoRootState(p) ==
    (cfg[p] = CfgOk(None)) =>
        /\ result[p] \in {"none", "OkNone"}
        /\ pc[p] = "idle"
        /\ ~ Live(p)
        /\ ~ HoldsAny(p)

NoRootStep(p) ==
    (cfg[p] = CfgOk(None) /\ result'[p] # result[p]) =>
        /\ result'[p] = "OkNone"
        /\ UNCHANGED <<dirs, files, excluded, locks, layout, hookRuns, created>>

NoRootNoEffect ==
    /\ [](\A p \in Procs : NoRootState(p))
    /\ [][\A p \in Procs : NoRootStep(p)]_vars

\* new() has returned Ok(None) in a process without a root.
NoLayoutReturned ==
    \E p \in Procs : cfg[p] = CfgOk(None) /\ result[p] = "OkNone"

\* C7: when open_rw fails, new() returns that error; the process gets no
\* Layout and holds no lock.
OpenFailedStep(p) ==
    (pc[p] = "open" /\ pc'[p] = "idle") =>
        /\ result'[p] = "Err"
        /\ err'[p] = "open_rw"

OpenFailedState(p) ==
    (err[p] = "open_rw") =>
        /\ result[p] = "Err"
        /\ ~ Live(p)
        /\ ~ HoldsAny(p)

LockFailurePropagates ==
    /\ [](\A p \in Procs : OpenFailedState(p))
    /\ [][\A p \in Procs : OpenFailedStep(p)]_vars

\* new() has returned the error of open_rw.
OpenRwFailed ==
    \E p \in Procs : err[p] = "open_rw" /\ result[p] = "Err" /\ pc[p] = "idle"

\* C8: whatever exclude_from_backups does, new() goes on to open the lock
\* file with no error recorded, and the step changes nothing but the
\* attribute the hook sets.
HookStep(p) ==
    (pc[p] = "exclude" /\ pc'[p] # "exclude") =>
        /\ pc'[p] = "open"
        /\ hook'[p] \in HookOutcomes
        /\ result'[p] = "pending"
        /\ err'[p] = "none"
        /\ UNCHANGED <<dirs, files, locks, layout>>

HookState(p) ==
    /\ hook[p] # "none" => (pc[p] = "open" /\ result[p] = "pending")
    /\ err[p] \in {"none", "config", "create_dir", "open_rw"}

HookNeverPropagates ==
    /\ [](\A p \in Procs : HookState(p))
    /\ [][\A p \in Procs : HookStep(p)]_vars

\* The hook has failed and new() is about to open the lock file.
HookFailedAndContinued ==
    \E p \in Procs : hook[p] = "failed" /\ pc[p] = "open" /\ result[p] = "pending"

\* C9: with deps, .fingerprint and build in place, prepare() returns Ok and
\* the tree of the version directory stays as it is; a prepare() that
\* returned Ok leaves the tree in that state.
Tree(paths, d) == {x \in paths : x = d \/ IsUnder(x, d)}

AllPrepared(l) == {l.deps, l.fingerprint, l.build} \subseteq dirs

PreparedStep(p) ==
    (pc[p] = "live" /\ AllPrepared(layout[p][1])) =>
        /\ prep'[p] \in {prep[p], "Ok"}
        /\ Tree(dirs', layout[p][1].dest) = Tree(dirs, layout[p][1].dest)
        /\ Tree(files', layout[p][1].dest) = Tree(files, layout[p][1].dest)

PreparedState(p) ==
    (Live(p) /\ prep[p] = "Ok") => AllPrepared(layout[p][1])

PrepareIdempotent ==
    /\ [](\A p \in Procs : PreparedState(p))
    /\ [][\A p \in Procs : PreparedStep(p)]_vars

\* prepare() has returned Ok on a tree that an earlier Layout had prepared.
PreparedAgain ==
    \E p, q \in Procs :
        /\ p # q
        /\ cfg[p] = cfg[q]
        /\ Live(p) /\ prep[p] = "Ok"
        /\ phase[q] = "Released" /\ prep[q] = "Ok"

\* C10: prepare() runs only on a Layout that holds the lock and is not yet
\* discarded, and a Layout's lifecycle only moves forward:
\* RootResolved, Locked, DirectoriesPrepared, Released.
PhaseOrder ==
    {<<"Unconfigured", "RootResolved">>,
     <<"RootResolved", "Locked">>,
     <<"Locked", "DirectoriesPrepared">>,
     <<"Locked", "Released">>,
     <<"DirectoriesPrepared", "Released">>,
     <<"Released", "RootResolved">>}

LifecycleStep(p) ==
    /\ (prep'[p] # prep[p] /\ prep'[p] # "none") =>
        /\ phase[p] \in {"Locked", "DirectoriesPrepared"}
        /\ Live(p) /\ Holds(p, layout[p][1]._lock)
        /\ layout'[p] # None
    /\ phase'[p] # phase[p] => <<phase[p], phase'[p]>> \in PhaseOrder

LifecycleState(p) ==
    /\ phase[p] \in {"Locked", "DirectoriesPrepared"} <=> Live(p)
    /\ prep[p] # "none" => phase[p] \in {"Locked", "DirectoriesPrepared", "Released"}

AcquireThenPrepare ==
    /\ [](\A p \in Procs : LifecycleState(p))
    /\ [][\A p \in Procs : LifecycleStep(p)]_vars

\* A Layout went through the whole lifecycle: locked, prepared, released.
FullLifecycle ==
    \E p \in Procs : phase[p] = "Released" /\ prep[p] = "Ok" /\ result[p] = "OkSome"

\* C11: a constructed Layout on root R has root = R, dest = R/0,
\* deps = R/0/deps, build = R/0/build, fingerprint = R/0/.fingerprint and its
\* lock is held on R/0/.cargo-lock; two Layouts on the same root are equal.
PathsOf(l, R) ==
    /\ l.root = R
    /\ l.dest = R \o <<"0">>
    /\ l.deps = R \o <<"0", "deps">>
    /\ l.build = R \o <<"0", "build">>
    /\ l.fingerprint = R \o <<"0", ".fingerprint">>
    /\ l._lock = R \o <<"0", ".cargo-lock">>

PathLayout ==
    /\ \A p \in Procs :
        Live(p) =>
            /\ PathsOf(layout[p][1], cfg[p].dir[1])
            /\ Holds(p, cfg[p].dir[1] \o <<"0", ".cargo-lock">>)
    /\ \A p, q \in Procs :
        (Live(p) /\ Live(q) /\ layout[p][1].root = layout[q][1].root)
            => layout[p][1] = layout[q][1]

\* A Layout has been constructed on the second root.
LayoutOnSecondRoot ==
    \E p \in Procs : Live(p) /\ layout[p][1].dest = <<2, "0">>

\* C12: what new() and prepare() create, lock or mark lies in the version
\* directory root/0 (or is the root itself); the tree of version "1" stays
\* exactly as it was found, and nothing appears under root/1 where there was
\* none.
InThisVersion(x) == Len(x) >= 2 /\ x[2] = "0" /\ <<x[1]>> \in Roots

FoundDirs == OtherDirs(UsedRoot)

FoundFiles == OtherFiles(UsedRoot)

FoundLocks == OtherLocks(UsedRoot)

VersionDisjoint ==
    /\ FoundDirs \subseteq dirs
    /\ FoundFiles \subseteq files
    /\ FoundLocks \subseteq locks
    /\ \A x \in dirs : x \in FoundDirs \/ x \in Roots \/ InThisVersion(x)
    /\ \A x \in files : x \in FoundFiles \/ InThisVersion(x)
    /\ \A l \in locks : l \in FoundLocks \/ (InThisVersion(l.file) /\ l.owner \in Procs)
    /\ \A e \in created : e.path \in Roots \/ InThisVersion(e.path)
    /\ \A x \in excluded : InThisVersion(x)

\* The tree of version "0" has been prepared next to the tree of version "1".
BothVersionsOnDisk ==
    \E p \in Procs :
        /\ Live(p) /\ prep[p] = "Ok"
        /\ layout[p][1].root = UsedRoot
        /\ OtherDest(UsedRoot) \in dirs
        /\ layout[p][1].build \in dirs

\* C13: prepare() creates deps, then .fingerprint, then build and stops at
\* the first failure: on disk a later directory never exists without the
\* earlier ones, a failed prepare() leaves build (at least) missing and the
\* earlier directories in place, and the Layout keeps its lock.
CreatedInOrder(d) ==
    /\ Join(d, "build") \in dirs => Join(d, ".fingerprint") \in dirs
    /\ Join(d, ".fingerprint") \in dirs => Join(d, "deps") \in dirs

PrepareFailedState(p) ==
    (Live(p) /\ prep[p] = "Err") =>
        /\ pc[p] = "live"
        /\ Holds(p, layout[p][1]._lock)
        /\ layout[p][1].build \notin dirs

PrepareFailedStep(p) ==
    (prep'[p] = "Err" /\ prep[p] # "Err") =>
        /\ dirs \subseteq dirs'
        /\ layout' = layout /\ locks' = locks /\ pc' = pc
        /\ files' = files

PrepareStopsAtFirstFailure ==
    /\ [](\A d \in Dests : CreatedInOrder(d))
    /\ [](\A p \in Procs : PrepareFailedState(p))
    /\ [][\A p \in Procs : PrepareFailedStep(p)]_vars

\* prepare() failed on .fingerprint: deps, created just before, is still there.
PrepareFailedHalfway ==
    \E p \in Procs :
        /\ Live(p) /\ prep[p] = "Err"
        /\ layout[p][1].deps \in dirs
        /\ layout[p][1].fingerprint \notin dirs

\* C14: while a Layout is live its dest directory and its lock file exist,
\* prepared or not; no step removes a directory or a file, and the discard
\* frees the lock and leaves the disk as it is.
LiveOnDisk(p) ==
    Live(p) =>
        /\ layout[p][1].dest \in dirs
        /\ layout[p][1]._lock \in files

DiscardStep(p) ==
    (Live(p) /\ layout'[p] = None) =>
        /\ dirs' = dirs /\ files' = files /\ excluded' = excluded
        /\ LockAvailable(locks', layout[p][1]._lock)

LockFilePersists ==
    /\ [](\A p \in Procs : LiveOnDisk(p))
    /\ [][dirs \subseteq dirs' /\ files \subseteq files']_vars
    /\ [][\A p \in Procs : DiscardStep(p)]_vars

\* A Layout that was never prepared has been discarded: its lock file is
\* still on disk and is free.
LockFileLeftBehind ==
    \E p \in Procs :
        /\ phase[p] = "Released" /\ prep[p] = "none"
        /\ LockFile(Dest(p)) \in files
        /\ Join(Dest(p), "deps") \notin dirs
        /\ LockAvailable(locks, LockFile(Dest(p)))

\* C15: when new() has created dest and run the hook and open_rw then fails,
\* it returns the error holding no lock and undoes nothing: dest stays and
\* the hook has run; a call of new() that finds dest goes straight to
\* open_rw, creating nothing and running no hook.
FailedAfterCreateStep(p) ==
    (pc[p] = "open" /\ hook[p] # "none" /\ pc'[p] = "idle") =>
        /\ result'[p] = "Err"
        /\ layout'[p] = None
        /\ locks' = locks /\ ~ HoldsAny(p)
        /\ dirs' = dirs /\ Dest(p) \in dirs
        /\ excluded' = excluded
        /\ hookRuns' = hookRuns /\ hookRuns[Dest(p)] >= 1

FoundDestStep(p) ==
    (pc[p] = "check" /\ Dest(p) \in dirs /\ pc'[p] # "check") =>
        /\ pc'[p] = "open"
        /\ hook'[p] = "none"
        /\ dirs' = dirs /\ hookRuns' = hookRuns /\ excluded' = excluded

FailedState(p) ==
    (err[p] = "open_rw") => (Dest(p) \in dirs /\ ~ HoldsAny(p) /\ ~ Live(p))

NoRollback ==
    /\ [](\A p \in Procs : FailedState(p))
    /\ [][\A p \in Procs : FailedAfterCreateStep(p)]_vars
    /\ [][\A p \in Procs : FoundDestStep(p)]_vars

\* After a construction failed in open_rw on a dest that no one ever locked,
\* a call of new() on the same root is about to find that dest.
RetryAfterFailedOpen ==
    \E p, q \in Procs :
        /\ err[q] = "open_rw" /\ pc[q] = "idle"
        /\ pc[p] = "check" /\ cfg[p] = cfg[q]
        /\ Dest(p) \in dirs
        /\ LockFile(Dest(p)) \notin files
        /\ hookRuns[Dest(p)] = 1

\* C16: a call of new() that has reached its lock can take it whenever no
\* Layout is live on its own dest, whatever is locked on other roots or in
\* the other version of its root.
LocksIndependent ==
    \A p \in Procs :
        (pc[p] = "lock" /\ \A q \in Procs : Live(q) => layout[q][1].dest # Dest(p))
            => ENABLED NewLock(p)

\* Layouts on two roots are live at once, one of them beside the locked
\* tree of the other version.
TwoRootsLive ==
    \E p, q \in Procs :
        /\ Live(p) /\ Live(q)
        /\ layout[p][1].root = UsedRoot
        /\ layout[q][1].root # UsedRoot
        /\ OtherLocks(UsedRoot) \subseteq locks

\* C17: as long as a Layout is live, no step (prepare() included) changes its
\* stored paths or takes its lock away, and root(), dest(), deps(), build()
\* and fingerprint() return what new() computed from the configured root.
ReadOnlyStep(p) ==
    (Live(p) /\ layout'[p] # None) =>
        /\ layout'[p] = layout[p]
        /\ [file |-> layout[p][1]._lock, owner |-> p] \in locks'

AccessorsFixed(p) ==
    Live(p) =>
        LET l == layout[p][1]
            made == MkLayout(cfg[p].dir[1], LockFile(Dest(p)))
        IN  /\ root(l) = made.root
            /\ dest(l) = made.dest
            /\ deps(l) = made.deps
            /\ build(l) = made.build
            /\ fingerprint(l) = made.fingerprint

LayoutReadOnly ==
    /\ [](\A p \in Procs : AccessorsFixed(p))
    /\ [][\A p \in Procs : ReadOnlyStep(p)]_vars

\* A Layout that has been prepared still answers with the paths of new().
PreparedLayoutUnchanged ==
    \E p \in Procs :
        /\ Live(p) /\ phase[p] = "DirectoriesPrepared"
        /\ deps(layout[p][1]) = Join(Dest(p), "deps")
        /\ deps(layout[p][1]) \in dirs

====
